---------------------------- MODULE Spec2Model ----------------------------
(***************************************************************************)
(* Model of run_sim (appendix_A_brian2.py): scenario parameter resolution, *)
(* construction of the three-layer network, the clock-driven simulation    *)
(* loop that run(duration) executes, and the final report.                 *)
(*                                                                         *)
(* Quantities carry fixed-point units: voltages in tenths of a millivolt   *)
(* (mV == 10) and times in tenths of a millisecond (ms == 10).  The        *)
(* forward-Euler update is computed with integer division truncating       *)
(* towards zero.  The engine's schedule within one time step is            *)
(*   groups (state update) -> thresholds -> synapses -> resets -> end      *)
(* and synapses have no delay, so a spike detected in a step is delivered  *)
(* to its targets in the same step, before the resets.                     *)
(***************************************************************************)
EXTENDS Integers, Sequences, FiniteSets, TLC

VARIABLES
    pc,                 \* "idle" | "running" | "done" | "failed"
    args,               \* the arguments of the current call of run_sim
    defaultclock_dt,    \* the process-wide clock step
    rate_hz,            \* resolved Poisson rate
    w_in_aff,           \* resolved input->afferent increment
    w_aff_cer,          \* resolved afferent->cerebellar increment
    input_layer,        \* set of input unit indices (empty: not built)
    afferent_layer,     \* [v |-> [index -> volt], a |-> [index -> volt]]
    cerebellar_layer,   \* [v |-> [index -> volt]]
    syn_input_afferent,      \* set of <<i, j>> pairs
    syn_afferent_cerebellar, \* set of <<i, j>> pairs
    spikemon,           \* [input, afferent, cerebellar |-> num_spikes]
    monitors,           \* TRUE once the three spike monitors exist
    t,                  \* time steps the run has advanced
    spikes,             \* units that spiked in the latest step, per layer
    train,              \* the input spike sets of the run so far, per step
    fired,              \* units that have spiked so far in the run, per layer
    before,             \* units that had spiked before the latest step
    stdout,             \* lines printed by the current call
    error,              \* exception raised by the current call, or "none"
    seeded,             \* TRUE when the call re-uses the previous seed
    previous            \* the last completed run: its args, train and counts

vars == <<pc, args, defaultclock_dt, rate_hz, w_in_aff, w_aff_cer,
          input_layer, afferent_layer, cerebellar_layer,
          syn_input_afferent, syn_afferent_cerebellar, spikemon, monitors,
          t, spikes, train, fired, before, stdout, error, seeded,
          previous>>

-----------------------------------------------------------------------------
(* Units and neuron constants                                              *)

mV == 10
ms == 10

tau == 10 * ms
tau_a == 100 * ms
v_rest == (0 - 65) * mV
v_reset == (0 - 65) * mV
v_thresh == (0 - 50) * mV
a_incr == 2 * mV
HypofunctionRate == 15

(* Bounds of the explored input space *)
MaxN == 2
MaxDur == 3
BuildMaxN == 10

Modes == {"baseline", "hypofunction", "afferent_silencing", "synaptic_blockade"}
ModeInputs == Modes \cup {"adaptation"}

DtSet == {25, 50}
\* Durations are whole multiples of the smallest clock step tried.
DurUnit == CHOOSE d \in DtSet : \A e \in DtSet : d <= e
DurSet == {k * DurUnit : k \in 0..MaxDur}
RateSet == {50}
W1Set == {24 * mV}
W2Set == {40 * mV}

\* Arguments of run_sim; the duration is a whole number of clock steps.
ArgSet ==
    {x \in [mode : ModeInputs, duration : DurSet, dt : DtSet,
            n_input : 1..MaxN, n_afferent : 1..MaxN, n_cerebellar : 1..MaxN,
            input_rate_hz : RateSet, w_in_aff_mV : W1Set, w_aff_cer_mV : W2Set] :
        x.duration % x.dt = 0}

BuildRateSet == {0, 50}
BuildW1Set == {0, 1 * mV}
BuildW2Set == {0, 12}

BuildArgSet ==
    [mode : ModeInputs, duration : {0}, dt : DtSet,
     n_input : 1..BuildMaxN, n_afferent : 1..BuildMaxN,
     n_cerebellar : 1..BuildMaxN,
     input_rate_hz : BuildRateSet, w_in_aff_mV : BuildW1Set,
     w_aff_cer_mV : BuildW2Set]

NoArgs == [mode |-> "", duration |-> 0, dt |-> 0, n_input |-> 0,
           n_afferent |-> 0, n_cerebellar |-> 0, input_rate_hz |-> 0,
           w_in_aff_mV |-> 0, w_aff_cer_mV |-> 0]

NoCounts == [input |-> 0, afferent |-> 0, cerebellar |-> 0]
NoSpikes == [input |-> {}, afferent |-> {}, cerebellar |-> {}]
NoRun == [valid |-> FALSE, args |-> NoArgs, train |-> <<>>, counts |-> NoCounts]

-----------------------------------------------------------------------------
(* Pure helpers                                                            *)

\* Division truncating towards zero.
Quot(x, y) == IF x >= 0 THEN x \div y ELSE 0 - ((0 - x) \div y)

\* Variants of the scenario table, each departing from it in one row.
ScenarioTable(mode, input_rate_hz, w_in_aff_mV, w_aff_cer_mV, hypoRate, silencedW, blockedW, otherOk) ==
    CASE mode = "baseline" ->
            [ok |-> TRUE, rate |-> input_rate_hz, w1 |-> w_in_aff_mV, w2 |-> w_aff_cer_mV]
      [] mode = "hypofunction" ->
            [ok |-> TRUE, rate |-> hypoRate, w1 |-> w_in_aff_mV, w2 |-> w_aff_cer_mV]
      [] mode = "afferent_silencing" ->
            [ok |-> TRUE, rate |-> input_rate_hz, w1 |-> silencedW, w2 |-> w_aff_cer_mV]
      [] mode = "synaptic_blockade" ->
            [ok |-> TRUE, rate |-> input_rate_hz, w1 |-> w_in_aff_mV, w2 |-> blockedW]
      [] OTHER ->
            [ok |-> otherOk, rate |-> input_rate_hz, w1 |-> w_in_aff_mV, w2 |-> w_aff_cer_mV]

\* hypofunction without its rate override
ResolveNoRateOverride(mode, input_rate_hz, w_in_aff_mV, w_aff_cer_mV) ==
    ScenarioTable(mode, input_rate_hz, w_in_aff_mV, w_aff_cer_mV,
                  input_rate_hz, 0, 0, FALSE)

\* an unknown mode falling back to the defaults instead of raising
ResolveFallback(mode, input_rate_hz, w_in_aff_mV, w_aff_cer_mV) ==
    ScenarioTable(mode, input_rate_hz, w_in_aff_mV, w_aff_cer_mV,
                  15, 0, 0, TRUE)

\* afferent_silencing leaving the input->afferent weight in place
ResolveSilencingKeepsWeight(mode, input_rate_hz, w_in_aff_mV, w_aff_cer_mV) ==
    ScenarioTable(mode, input_rate_hz, w_in_aff_mV, w_aff_cer_mV,
                  15, w_in_aff_mV, 0, FALSE)

\* synaptic_blockade leaving the afferent->cerebellar weight in place
ResolveBlockadeKeepsWeight(mode, input_rate_hz, w_in_aff_mV, w_aff_cer_mV) ==
    ScenarioTable(mode, input_rate_hz, w_in_aff_mV, w_aff_cer_mV,
                  15, 0, w_aff_cer_mV, FALSE)

\* Scenario-specific adjustments: the resolved (rate, w1, w2), or the
\* unknown-mode failure.
Resolve(mode, input_rate_hz, w_in_aff_mV, w_aff_cer_mV) ==
    CASE mode = "baseline" ->
            [ok |-> TRUE, rate |-> input_rate_hz, w1 |-> w_in_aff_mV, w2 |-> w_aff_cer_mV]
      [] mode = "hypofunction" ->
            [ok |-> TRUE, rate |-> HypofunctionRate, w1 |-> w_in_aff_mV, w2 |-> w_aff_cer_mV]
      [] mode = "afferent_silencing" ->
            [ok |-> TRUE, rate |-> input_rate_hz, w1 |-> 0, w2 |-> w_aff_cer_mV]
      [] mode = "synaptic_blockade" ->
            [ok |-> TRUE, rate |-> input_rate_hz, w1 |-> w_in_aff_mV, w2 |-> 0]
      [] OTHER ->
            [ok |-> FALSE, rate |-> 0, w1 |-> 0, w2 |-> 0]

\* one-to-one wiring that silently skips out-of-range targets
ConnectOneToOneSkipInvalid(n_pre, n_post) ==
    [ok |-> TRUE,
     pairs |-> {<<i, i>> : i \in {k \in 0..(n_pre - 1) : k < n_post}}]

\* every input unit wired to every afferent unit
ConnectAllToAll(n_pre, n_post) ==
    IF \E i \in 0..(n_pre - 1) : i >= n_post
    THEN [ok |-> FALSE, pairs |-> {}]
    ELSE [ok |-> TRUE, pairs |-> (0..(n_pre - 1)) \X (0..(n_post - 1))]

\* connect(j='i'): one synapse per source index i, to target j = i.  The
\* call leaves skip_if_invalid at its default, so the engine raises an
\* IndexError for a target index outside the target population.
ConnectOneToOne(n_pre, n_post) ==
    IF \E i \in 0..(n_pre - 1) : i >= n_post
    THEN [ok |-> FALSE, pairs |-> {}]
    ELSE [ok |-> TRUE, pairs |-> {<<i, i>> : i \in 0..(n_pre - 1)}]

\* fan-in that clamps the target index instead of wrapping it
ConnectClamped(n_pre, n_post) ==
    [ok |-> TRUE,
     pairs |-> {<<i, IF i < n_post THEN i ELSE n_post - 1>> : i \in 0..(n_pre - 1)}]

\* connect(j='i % n_cerebellar'): one synapse per source index i.
ConnectRoundRobin(n_pre, n_post) ==
    [ok |-> TRUE, pairs |-> {<<i, i % n_post>> : i \in 0..(n_pre - 1)}]

\* a run that stops one step short of the duration
NumStepsShort(duration, dt) == (duration \div dt) - 1

\* Number of time steps run(duration) executes at clock step dt.
NumSteps(duration, dt) == duration \div dt

\* The spike sets a PoissonGroup can emit in one step: each unit spikes
\* when rand() < rate * dt.  rate is in Hz and dt in tenths of a ms.
PoissonSpikes(units, rate, dt) ==
    IF rate * dt <= 0 THEN {{}}
    ELSE IF rate * dt >= 1000 * ms THEN {units}
    ELSE SUBSET units


Indices(n) == 0..(n - 1)

\* afferent_layer = NeuronGroup(n_afferent, ...); afferent_layer.v = v_rest
NewAfferentLayer(n) ==
    [v |-> [i \in Indices(n) |-> v_rest], a |-> [i \in Indices(n) |-> 0]]

\* cerebellar_layer = NeuronGroup(n_cerebellar, ...); cerebellar_layer.v = v_rest
NewCerebellarLayer(n) == [v |-> [i \in Indices(n) |-> v_rest]]

\* monitors shared between calls: the counters carry over
SharedSpikeMonitors == spikemon

\* SpikeMonitor(...): three fresh counters.
NewSpikeMonitors == NoCounts

NoAfferentLayer == [v |-> <<>>, a |-> <<>>]
NoCerebellarLayer == [v |-> <<>>]

\* Forward Euler step of  dv/dt = (v_rest - v - a)/tau,  da/dt = -a/(100*ms)
AfferentEuler(layer, dt) ==
    [v |-> [i \in DOMAIN layer.v |->
                layer.v[i] + Quot(dt * (v_rest - layer.v[i] - layer.a[i]), tau)],
     a |-> [i \in DOMAIN layer.a |->
                layer.a[i] + Quot(dt * (0 - layer.a[i]), tau_a)]]

\* Forward Euler step of  dv/dt = (v_rest - v)/tau
CerebellarEuler(layer, dt) ==
    [v |-> [i \in DOMAIN layer.v |->
                layer.v[i] + Quot(dt * (v_rest - layer.v[i]), tau)]]

\* threshold='v > v_thresh'
Threshold(v) == {i \in DOMAIN v : v[i] > v_thresh}

\* on_pre='v_post += w', once per synapse whose source spiked.
Deliver(v, pre, syn, w) ==
    [j \in DOMAIN v |-> v[j] + w * Cardinality({i \in pre : <<i, j>> \in syn})]

\* reset='v = v_reset; a += 2*mV'
AfferentReset(layer, spiked) ==
    [v |-> [i \in DOMAIN layer.v |-> IF i \in spiked THEN v_reset ELSE layer.v[i]],
     a |-> [i \in DOMAIN layer.a |-> IF i \in spiked THEN layer.a[i] + a_incr ELSE layer.a[i]]]

\* reset='v = v_reset'
CerebellarReset(layer, spiked) ==
    [v |-> [i \in DOMAIN layer.v |-> IF i \in spiked THEN v_reset ELSE layer.v[i]]]

\* The four printed lines of the report.
ReportLines(mode, counts) ==
    << [label |-> "Scenario", value |-> mode],
       [label |-> "Input spikes", value |-> counts.input],
       [label |-> "Afferent spikes", value |-> counts.afferent],
       [label |-> "Cerebellar spikes", value |-> counts.cerebellar] >>

-----------------------------------------------------------------------------
(* State machine                                                           *)

Init ==
    /\ pc = "idle"
    /\ args = NoArgs
    /\ defaultclock_dt = 1
    /\ rate_hz = 0
    /\ w_in_aff = 0
    /\ w_aff_cer = 0
    /\ input_layer = {}
    /\ afferent_layer = NoAfferentLayer
    /\ cerebellar_layer = NoCerebellarLayer
    /\ syn_input_afferent = {}
    /\ syn_afferent_cerebellar = {}
    /\ spikemon = NoCounts
    /\ monitors = FALSE
    /\ t = 0
    /\ spikes = NoSpikes
    /\ train = <<>>
    /\ fired = NoSpikes
    /\ before = NoSpikes
    /\ stdout = <<>>
    /\ error = "none"
    /\ seeded = FALSE
    /\ previous = NoRun

\* run_sim up to the point where run(duration) starts stepping: set the
\* clock, resolve the scenario, build layers, synapses and monitors.  An
\* exception leaves the call with what had been built before it.
RunSim(a, sameSeed) ==
    LET r == Resolve(a.mode, a.input_rate_hz, a.w_in_aff_mV, a.w_aff_cer_mV)
        c1 == ConnectOneToOne(a.n_input, a.n_afferent)
        c2 == ConnectRoundRobin(a.n_afferent, a.n_cerebellar)
    IN
    /\ args' = a
    /\ seeded' = sameSeed
    /\ previous' = IF sameSeed THEN previous ELSE NoRun
    /\ defaultclock_dt' = a.dt
    /\ stdout' = <<>>
    /\ t' = 0
    /\ spikes' = NoSpikes
    /\ train' = <<>>
    /\ fired' = NoSpikes
    /\ before' = NoSpikes
    /\ IF ~r.ok
       THEN /\ pc' = "failed"
            /\ error' = "ValueError: Unknown mode"
            /\ rate_hz' = 0
            /\ w_in_aff' = 0
            /\ w_aff_cer' = 0
            /\ input_layer' = {}
            /\ afferent_layer' = NoAfferentLayer
            /\ cerebellar_layer' = NoCerebellarLayer
            /\ syn_input_afferent' = {}
            /\ syn_afferent_cerebellar' = {}
            /\ spikemon' = NoCounts
            /\ monitors' = FALSE
       ELSE /\ rate_hz' = r.rate
            /\ w_in_aff' = r.w1
            /\ w_aff_cer' = r.w2
            /\ input_layer' = Indices(a.n_input)
            /\ afferent_layer' = NewAfferentLayer(a.n_afferent)
            /\ cerebellar_layer' = NewCerebellarLayer(a.n_cerebellar)
            /\ IF ~c1.ok
               THEN /\ pc' = "failed"
                    /\ error' = "IndexError: index j outside allowed range"
                    /\ syn_input_afferent' = {}
                    /\ syn_afferent_cerebellar' = {}
                    /\ spikemon' = NoCounts
                    /\ monitors' = FALSE
               ELSE /\ pc' = "running"
                    /\ error' = "none"
                    /\ syn_input_afferent' = c1.pairs
                    /\ syn_afferent_cerebellar' = c2.pairs
                    /\ spikemon' = NewSpikeMonitors
                    /\ monitors' = TRUE

\* A first call, or a call after a failed one, with a fresh random state.
Call ==
    /\ pc \in {"idle", "failed"}
    /\ \E a \in ArgSet : RunSim(a, FALSE)

\* A call repeating the arguments and the random seed of the completed run.
Rerun ==
    /\ pc = "done"
    /\ previous.valid
    /\ RunSim(previous.args, TRUE)

\* The caller moves on to another scenario, keeping the other arguments,
\* with a fresh random state.
NextScenario ==
    /\ pc = "done"
    /\ \E m \in ModeInputs : RunSim([args EXCEPT !.mode = m], FALSE)

\* A single call that builds the network and runs it for no time at all.
Build ==
    /\ pc = "idle"
    /\ \E a \in BuildArgSet : RunSim(a, FALSE)

\* One time step of run(duration).
Step ==
    /\ pc = "running"
    /\ t < NumSteps(args.duration, defaultclock_dt)
    /\ \E spk_in \in PoissonSpikes(input_layer, rate_hz, defaultclock_dt) :
         LET aff1 == AfferentEuler(afferent_layer, defaultclock_dt)
             cer1 == CerebellarEuler(cerebellar_layer, defaultclock_dt)
             spk_aff == Threshold(aff1.v)
             spk_cer == Threshold(cer1.v)
             aff2 == [aff1 EXCEPT !.v = Deliver(aff1.v, spk_in, syn_input_afferent, w_in_aff)]
             cer2 == [cer1 EXCEPT !.v = Deliver(cer1.v, spk_aff, syn_afferent_cerebellar, w_aff_cer)]
         IN
         /\ seeded => (t + 1 <= Len(previous.train) /\ spk_in = previous.train[t + 1])
         /\ afferent_layer' = AfferentReset(aff2, spk_aff)
         /\ cerebellar_layer' = CerebellarReset(cer2, spk_cer)
         /\ spikes' = [input |-> spk_in, afferent |-> spk_aff, cerebellar |-> spk_cer]
         /\ fired' = [input |-> fired.input \cup spk_in,
                      afferent |-> fired.afferent \cup spk_aff,
                      cerebellar |-> fired.cerebellar \cup spk_cer]
         /\ spikemon' = [input |-> spikemon.input + Cardinality(spk_in),
                         afferent |-> spikemon.afferent + Cardinality(spk_aff),
                         cerebellar |-> spikemon.cerebellar + Cardinality(spk_cer)]
         /\ before' = fired
         /\ train' = Append(train, spk_in)
    /\ t' = t + 1
    /\ UNCHANGED <<pc, args, defaultclock_dt, rate_hz, w_in_aff, w_aff_cer,
                   input_layer, syn_input_afferent, syn_afferent_cerebellar,
                   monitors, stdout, error, seeded, previous>>

\* run(duration) has returned: print the report and return the monitors.
Report ==
    /\ pc = "running"
    /\ t >= NumSteps(args.duration, defaultclock_dt)
    /\ stdout' = ReportLines(args.mode, spikemon)
    /\ pc' = "done"
    /\ previous' = IF seeded THEN previous
                   ELSE [valid |-> TRUE, args |-> args, train |-> train,
                         counts |-> spikemon]
    /\ UNCHANGED <<args, defaultclock_dt, rate_hz, w_in_aff, w_aff_cer,
                   input_layer, afferent_layer, cerebellar_layer,
                   syn_input_afferent, syn_afferent_cerebellar, spikemon,
                   monitors, t, spikes, train, fired, before, error, seeded>>

Next == Call \/ NextScenario \/ Rerun \/ Step \/ Report

Spec == Init /\ [][Next]_vars

\* Construction only, over the full range of population sizes and defaults.
NextBuild == Build \/ Rerun \/ Report

SpecBuild == Init /\ [][NextBuild]_vars

-----------------------------------------------------------------------------
(* Properties                                                              *)

Built == pc \in {"running", "done"}
Called == pc # "idle"
UnknownMode == "ValueError: Unknown mode"
Min(x, y) == IF x <= y THEN x ELSE y

\* C1: for every default triple, baseline resolves to the defaults,
\* hypofunction overrides only the rate with 15 Hz, afferent_silencing only
\* zeroes the input->afferent weight, synaptic_blockade only zeroes the
\* afferent->cerebellar weight; none of the four modes is rejected, and a
\* repeated call with the same arguments resolves to the same tuple.
C1_Resolution ==
    (Called /\ args.mode \in Modes) =>
        /\ error # UnknownMode
        /\ <<rate_hz, w_in_aff, w_aff_cer>> =
             CASE args.mode = "baseline" ->
                    <<args.input_rate_hz, args.w_in_aff_mV, args.w_aff_cer_mV>>
               [] args.mode = "hypofunction" ->
                    <<15, args.w_in_aff_mV, args.w_aff_cer_mV>>
               [] args.mode = "afferent_silencing" ->
                    <<args.input_rate_hz, 0, args.w_aff_cer_mV>>
               [] args.mode = "synaptic_blockade" ->
                    <<args.input_rate_hz, args.w_in_aff_mV, 0>>

C1_Witness ==
    /\ pc = "done"
    /\ seeded
    /\ args.mode = "hypofunction"
    /\ args.input_rate_hz = 50
    /\ rate_hz = 15
    /\ w_in_aff = 1 * mV
    /\ w_aff_cer = 12

\* C2: a call with a mode outside the four scenarios fails with the
\* unknown-mode error, and has built no population, projection or monitor,
\* advanced no time step and printed nothing.
C2_UnknownModeBuildsNothing ==
    (Called /\ args.mode \notin Modes) =>
        /\ pc = "failed"
        /\ error = UnknownMode
        /\ input_layer = {}
        /\ afferent_layer = NoAfferentLayer
        /\ cerebellar_layer = NoCerebellarLayer
        /\ syn_input_afferent = {}
        /\ syn_afferent_cerebellar = {}
        /\ ~monitors
        /\ t = 0
        /\ spikemon = NoCounts
        /\ stdout = <<>>

C2_Witness ==
    /\ pc = "failed"
    /\ args.mode = "adaptation"
    /\ defaultclock_dt = 50
    /\ error = UnknownMode

\* C3: a call with a non-positive population size, duration or clock step
\* fails with InvalidParameter, which is not the unknown-mode error, and
\* prints no report.
C3_NonPositiveRejected ==
    (Called /\ args.mode \in Modes
            /\ (\/ args.n_input <= 0 \/ args.n_afferent <= 0
                \/ args.n_cerebellar <= 0
                \/ args.duration <= 0 \/ args.dt <= 0)) =>
        /\ pc = "failed"
        /\ error = "InvalidParameter"
        /\ stdout = <<>>

\* C4: in afferent_silencing mode every afferent unit keeps v = v_rest and
\* a = 0 at every step, no afferent unit spikes, and the afferent count
\* stays 0.
C4_SilencedAfferentsStayAtRest ==
    (Built /\ args.mode = "afferent_silencing") =>
        /\ w_in_aff = 0
        /\ \A i \in DOMAIN afferent_layer.v :
              /\ afferent_layer.v[i] = v_rest
              /\ afferent_layer.a[i] = 0
        /\ spikes.afferent = {}
        /\ fired.afferent = {}
        /\ spikemon.afferent = 0
        /\ (pc = "done" => stdout[3].value = 0)

C4_Witness ==
    /\ pc = "done"
    /\ args.mode = "afferent_silencing"
    /\ t = 3
    /\ spikemon.input >= 4
    /\ stdout[3] = [label |-> "Afferent spikes", value |-> 0]

\* C5: in synaptic_blockade mode no cerebellar unit ever crosses threshold,
\* whatever the afferents do: the cerebellar count stays 0.
C5_BlockedCerebellumSilent ==
    (Built /\ args.mode = "synaptic_blockade") =>
        /\ w_aff_cer = 0
        /\ \A k \in DOMAIN cerebellar_layer.v : cerebellar_layer.v[k] <= v_thresh
        /\ spikes.cerebellar = {}
        /\ fired.cerebellar = {}
        /\ spikemon.cerebellar = 0
        /\ (pc = "done" => stdout[4].value = 0)

C5_Witness ==
    /\ pc = "done"
    /\ args.mode = "synaptic_blockade"
    /\ spikemon.afferent >= 2
    /\ stdout[4] = [label |-> "Cerebellar spikes", value |-> 0]

\* C6 as claimed: for any sizes the input->afferent projection is built and
\* connects exactly (i, i) for i < min(n_input, n_afferent).
C6_Original ==
    (Called /\ args.mode \in Modes) =>
        /\ Built
        /\ syn_input_afferent =
             {<<i, i>> : i \in Indices(Min(args.n_input, args.n_afferent))}

\* C6: when n_input <= n_afferent the input->afferent projection connects
\* exactly (i, i) for i < n_input = min(n_input, n_afferent): a bijection
\* when the sizes are equal, the afferent units from n_input on unconnected
\* otherwise.  When n_input > n_afferent the construction fails with an
\* index error: no projection or monitor is built and nothing is run or
\* printed.
C6_OneToOne ==
    (Called /\ args.mode \in Modes) =>
        IF args.n_input <= args.n_afferent
        THEN /\ Built
             /\ syn_input_afferent = {<<i, i>> : i \in Indices(args.n_input)}
             /\ \A i \in input_layer :
                  Cardinality({j \in DOMAIN afferent_layer.v :
                                 <<i, j>> \in syn_input_afferent}) = 1
             /\ \A j \in DOMAIN afferent_layer.v :
                  Cardinality({i \in input_layer : <<i, j>> \in syn_input_afferent})
                    = IF j < args.n_input THEN 1 ELSE 0
        ELSE /\ pc = "failed"
             /\ error = "IndexError: index j outside allowed range"
             /\ syn_input_afferent = {}
             /\ syn_afferent_cerebellar = {}
             /\ ~monitors
             /\ stdout = <<>>

C6_Witness ==
    /\ pc = "done"
    /\ args.n_input = 7
    /\ args.n_afferent = 10
    /\ Cardinality(syn_input_afferent) = 7

\* C7: the afferent->cerebellar projection connects every afferent unit i to
\* exactly the cerebellar unit i mod n_cerebellar; for 10 afferent and 5
\* cerebellar units, unit k receives from exactly k and k + 5; every
\* cerebellar unit has a source when n_afferent >= n_cerebellar.
C7_RoundRobin ==
    Built =>
        /\ \A i \in Indices(args.n_afferent) :
              {k \in Indices(args.n_cerebellar) :
                   <<i, k>> \in syn_afferent_cerebellar} = {i % args.n_cerebellar}
        /\ \A pr \in syn_afferent_cerebellar :
              /\ pr[1] \in Indices(args.n_afferent)
              /\ pr[2] \in Indices(args.n_cerebellar)
        /\ (args.n_afferent = 10 /\ args.n_cerebellar = 5) =>
              \A k \in 0..4 :
                 {i \in Indices(10) : <<i, k>> \in syn_afferent_cerebellar} = {k, k + 5}
        /\ (args.n_afferent >= args.n_cerebellar) =>
              \A k \in Indices(args.n_cerebellar) :
                 \E i \in Indices(args.n_afferent) : <<i, k>> \in syn_afferent_cerebellar

C7_Witness ==
    /\ pc = "done"
    /\ args.n_afferent = 10
    /\ args.n_cerebellar = 5
    /\ <<9, 4>> \in syn_afferent_cerebellar
    /\ Cardinality(syn_afferent_cerebellar) = 10

\* C8: a run repeated in the same process with the same arguments and the
\* same seed (hence the same input spike train) reports the same three
\* counts as the run before it.
C8_Reproducible ==
    (pc = "done" /\ seeded) =>
        /\ args = previous.args
        /\ train = previous.train
        /\ spikemon = previous.counts
        /\ stdout = ReportLines(previous.args.mode, previous.counts)

C8_Witness ==
    /\ pc = "done"
    /\ seeded
    /\ spikemon.input > 0
    /\ spikemon.afferent > 0
    /\ spikemon.cerebellar > 0

\* C9: the label and the three counts are printed together, only once the
\* run has advanced for the whole duration; a failed call and a run still
\* in progress have printed nothing.
C9_AllOrNothing ==
    /\ (stdout # <<>>) =>
          /\ pc = "done"
          /\ t * args.dt = args.duration
          /\ Len(stdout) = 4
          /\ stdout[1] = [label |-> "Scenario", value |-> args.mode]
          /\ stdout[2] = [label |-> "Input spikes", value |-> spikemon.input]
          /\ stdout[3] = [label |-> "Afferent spikes", value |-> spikemon.afferent]
          /\ stdout[4] = [label |-> "Cerebellar spikes", value |-> spikemon.cerebellar]
    /\ (pc = "done") => (stdout # <<>>)
    /\ (pc \in {"failed", "running", "idle"}) => (stdout = <<>>)

C9_Witness ==
    /\ pc = "done"
    /\ t = 3
    /\ Len(stdout) = 4
    /\ stdout[3].value > 0

\* The afferent layer as it follows from the input spike train alone.
RECURSIVE AfferentFromTrain(_, _)
AfferentFromTrain(tr, n) ==
    IF n = 0 THEN NewAfferentLayer(args.n_afferent)
    ELSE LET aff0 == AfferentFromTrain(tr, n - 1)
             aff1 == AfferentEuler(aff0, args.dt)
             spk == Threshold(aff1.v)
         IN AfferentReset(
               [aff1 EXCEPT !.v = Deliver(aff1.v, tr[n],
                                          {<<i, i>> : i \in Indices(args.n_input)},
                                          w_in_aff)],
               spk)

\* C10: an afferent unit spikes only after the input unit of the same index
\* has spiked in an earlier step; a cerebellar unit k spikes only after an
\* afferent unit j with j mod n_cerebellar = k has spiked in an earlier step;
\* so cerebellar count > 0 implies afferent count > 0 implies input count
\* > 0; and the afferent state is determined by the input train alone.
C10_FeedForward ==
    Built =>
        /\ \A j \in spikes.afferent : j \in before.input
        /\ \A k \in spikes.cerebellar :
              \E j \in before.afferent : j % args.n_cerebellar = k
        /\ (spikemon.cerebellar > 0) => (spikemon.afferent > 0)
        /\ (spikemon.afferent > 0) => (spikemon.input > 0)
        /\ afferent_layer = AfferentFromTrain(train, Len(train))

C10_Witness ==
    /\ pc = "running"
    /\ args.n_input = 2
    /\ args.n_afferent = 2
    /\ args.n_cerebellar = 2
    /\ spikes.cerebellar = {1}
    /\ before.afferent = {1}
    /\ before.input = {1}

=============================================================================
